---- MODULE Spec2Model ----
(***************************************************************************)
(* A model of the appointment core of the hospital management application  *)
(* (src/app.py, src/models.py): the appointment, treatment, medical-record *)
(* and doctor-availability tables, and the request handlers that read and  *)
(* write them.  Every handler is an operator from the store it reads (and  *)
(* the request's inputs) to the store it leaves and the message it         *)
(* flashes; the actions apply these operators to the state.                *)
(*                                                                         *)
(* Representation.  A row's id is its index in the table's sequence (the   *)
(* autoincrement primary key; no handler deletes rows).  A date string     *)
(* 'YYYY-MM-DD' is the number of its day: the only things the code does    *)
(* with dates are equality, the lexicographic BETWEEN of find_doctors and  *)
(* now + timedelta(days=i), which on ISO dates are the day number's.  A    *)
(* time string 'HH:MM' is the tuple of its four digits, so that parsing    *)
(* (strptime) and formatting (strftime) are computed, not assumed.         *)
(***************************************************************************)
EXTENDS Integers, Sequences, FiniteSets, TLC

\* ------------------------------------------------------------------ bounds
MaxAppts == 2          \* appointment rows the store may hold
MaxAvail == 2          \* doctor_availability rows the store may hold
LastDay  == 1          \* the clock runs from day 0 to this day

\* ------------------------------------------------------------ input domains
Doctors  == {1, 2}     \* user ids of the doctors
Patients == {3, 4}     \* user ids of the patients
Dates    == {7}        \* the dates requests name (day numbers)

T0900 == <<0, 9, 0, 0>>
T0930 == <<0, 9, 3, 0>>
T1000 == <<1, 0, 0, 0>>

Times        == {T0900, T0930}   \* the times booking requests name
WindowStarts == {T0900, T0930}   \* start_time values of availability forms
WindowEnds   == {T1000}          \* end_time values of availability forms

\* A form field that is absent or empty (request.form.get gives None or '').
NoDoctor == 0
NoDate   == 0 - 1
NoTime   == << >>

Methods == {"GET", "POST"}

\* Appointment.status values the code names.
Statuses == {"Booked", "Pending", "Rescheduled", "Completed", "Cancelled"}

VARIABLES
    appts,            \* table appointment: sequence of rows, id = index
    avail,            \* table doctor_availability: sequence of rows
    treatments,       \* table treatment: the appointment_id of each row
    medical_records,  \* table medical_record: the appointment_id of each row
    today,            \* the day datetime.now() falls on
    pend,             \* book_appointment requests between query and commit
    pend_avail,       \* set_doctor_availability requests between query and commit
    call              \* a call of generate_slots: its arguments and its result

vars == <<appts, avail, treatments, medical_records, today, pend, pend_avail, call>>

\* ------------------------------------------------------------------ tables

\* Appointment(patient_id, doctor_id, date, time, status)
Appointment(p, d, date, time, status) ==
    [patient_id |-> p, doctor_id |-> d, date |-> date, time |-> time,
     status |-> status]

\* DoctorAvailability(doctor_id, date, start_time, end_time)
DoctorAvailability(d, date, start, end) ==
    [doctor_id |-> d, date |-> date, start_time |-> start, end_time |-> end]

\* Appointment.query.get_or_404(appt_id): the row exists.
Exists(A, id) == id \in 1..Len(A)

\* The constraint as it would be were it left out of __table_args__.
NoDoctorTimeUc(A, row) == FALSE

\* The constraint as it would be were it scoped to the rows still Booked.
BookedOnlyDoctorTimeUc(A, row) ==
    \E i \in 1..Len(A) :
        /\ A[i].doctor_id = row.doctor_id
        /\ A[i].date = row.date
        /\ A[i].time = row.time
        /\ A[i].status = "Booked"

\* UniqueConstraint('doctor_id', 'date', 'time'): would inserting `row` into A
\* break it?  The constraint names no status: every row counts.
ViolatesDoctorTimeUc(A, row) ==
    \E i \in 1..Len(A) :
        /\ A[i].doctor_id = row.doctor_id
        /\ A[i].date = row.date
        /\ A[i].time = row.time

\* UniqueConstraint('doctor_id', 'date', 'start_time') over the rows of V
\* other than row `skip` (0: no row is skipped).
ViolatesDoctorDateTimeUc(V, row, skip) ==
    \E i \in 1..Len(V) :
        /\ i # skip
        /\ V[i].doctor_id = row.doctor_id
        /\ V[i].date = row.date
        /\ V[i].start_time = row.start_time

\* ----------------------------------------------------- generate_slots

\* datetime.strptime(s, '%H:%M'), as minutes since midnight.
strptime(s) == (s[1] * 10 + s[2]) * 60 + s[3] * 10 + s[4]

\* datetime.strftime('%H:%M') of a time of day given in minutes.
strftime(m) ==
    << (m \div 60) \div 10, (m \div 60) % 10, (m % 60) \div 10, (m % 60) % 10 >>

\* The while loop: current_time runs from start in steps of the interval while
\* it is before end_time.  Both times are parsed onto the same day, so a
\* current_time that passes midnight is after every end_time and the loop ends.
\* The loop as it would be with `<=` for `<`.
RECURSIVE slots_through(_, _, _)
slots_through(current_time, end_time, interval_minutes) ==
    IF current_time <= end_time
    THEN <<strftime(current_time)>>
         \o slots_through(current_time + interval_minutes, end_time, interval_minutes)
    ELSE << >>

RECURSIVE slots_from(_, _, _)
slots_from(current_time, end_time, interval_minutes) ==
    IF current_time < end_time
    THEN <<strftime(current_time)>>
         \o slots_from(current_time + interval_minutes, end_time, interval_minutes)
    ELSE << >>

generate_slots(start_time_str, end_time_str, interval_minutes) ==
    slots_from(strptime(start_time_str), strptime(end_time_str), interval_minutes)

\* The default of the interval_minutes parameter.
DefaultInterval == 30

\* ------------------------------------------------------- find_doctors

\* range(7): the listing covers today .. today + 6.
HorizonDays == 7

date_list(now) == now .. (now + HorizonDays - 1)

\* timedelta(days=7): end_date of the two range queries.
QueryDays == 7

\* <column>.date.between(start_date, end_date), both ends included.
InQueryRange(now, date) == now <= date /\ date <= now + QueryDays

\* availability_map[doctor][date]: the rows of the query are put into the map
\* in turn, so of several rows for a (doctor, date) the last one stays; 0 when
\* there is none.
availability_record(V, now, d, date) ==
    LET hits == { i \in 1..Len(V) : /\ V[i].doctor_id = d
                                    /\ V[i].date = date
                                    /\ InQueryRange(now, V[i].date) }
    IN  IF hits = {} THEN 0 ELSE CHOOSE i \in hits : \A j \in hits : j <= i

\* The listing's set as it would be were the filter `status != 'Pending'`.
ListingOccupyingNotPending == {"Booked", "Completed", "Cancelled", "Rescheduled"}

\* The listing's set as it would be were the filter `status == 'Booked'`.
ListingOccupyingBooked == {"Booked"}

\* The statuses find_doctors treats as occupying a slot.
ListingOccupying == {"Booked", "Completed"}

\* booked_slots_set: the (doctor, date, time) of the loaded appointments.
booked_slots_set(A, now) ==
    { <<A[i].doctor_id, A[i].date, A[i].time>> :
        i \in { j \in 1..Len(A) : /\ InQueryRange(now, A[j].date)
                                  /\ A[j].status \in ListingOccupying } }

\* bookable_slots_map[doctor][date] for a date of date_list.
bookable_slots(A, V, now, d, date) ==
    LET r == availability_record(V, now, d, date)
    IN  IF r # 0
        THEN SelectSeq(generate_slots(V[r].start_time, V[r].end_time, DefaultInterval),
                       LAMBDA slot : <<d, date, slot>> \notin booked_slots_set(A, now))
        ELSE << >>

bookable_slots_map(A, V, now) ==
    [d \in Doctors |-> [date \in date_list(now) |-> bookable_slots(A, V, now, d, date)]]

\* --------------------------------------------------- book_appointment

\* The test as it would be with any() for all(): `not any([doctor_id, date, time])`.
NothingGiven(d, date, time) == d = NoDoctor /\ date = NoDate /\ time = NoTime

\* not all([doctor_id, date, time])
MissingDetails(d, date, time) == d = NoDoctor \/ date = NoDate \/ time = NoTime

\* The statuses the conflict query of book_appointment filters on.
CommitOccupying == {"Booked"}

\* The conflict query as it would be were it to filter on 'Completed'.
conflict_completed(A, d, date, time) ==
    \E i \in 1..Len(A) :
        /\ A[i].doctor_id = d
        /\ A[i].date = date
        /\ A[i].time = time
        /\ A[i].status = "Completed"

\* conflict = Appointment.query.filter(doctor_id, date, time, status).first()
conflict(A, d, date, time) ==
    \E i \in 1..Len(A) :
        /\ A[i].doctor_id = d
        /\ A[i].date = date
        /\ A[i].time = time
        /\ A[i].status \in CommitOccupying

\* The insert as it would be were the new row given status='Pending'.
insert_pending_appointment(A, p, d, date, time) ==
    LET row == Appointment(p, d, date, time, "Pending")
    IN  IF \E i \in 1..Len(A) :
               A[i].doctor_id = d /\ A[i].date = date /\ A[i].time = time
        THEN [appts |-> A, flash |-> "Error booking appointment"]
        ELSE [appts |-> Append(A, row), flash |-> "Appointment booked successfully!"]

\* db.session.add(new_appointment); db.session.commit(), with the except
\* branch: an IntegrityError rolls the insert back.
insert_appointment(A, p, d, date, time) ==
    LET row == Appointment(p, d, date, time, "Booked")
    IN  IF ViolatesDoctorTimeUc(A, row)
        THEN [appts |-> A, flash |-> "Error booking appointment"]
        ELSE [appts |-> Append(A, row), flash |-> "Appointment booked successfully!"]

\* The whole handler, for the logged-in patient p.
book_appointment(A, p, d, date, time) ==
    IF MissingDetails(d, date, time)
    THEN [appts |-> A, flash |-> "Missing appointment details."]
    ELSE IF conflict(A, d, date, time)
    THEN [appts |-> A, flash |-> "This exact time slot is already booked"]
    ELSE insert_appointment(A, p, d, date, time)

\* ------------------------------------------------------ cancellation

\* The statuses admin_cancel_appointment accepts.
AdminCancellable == {"Booked"}

\* The patient's set as it would be were the test `status != 'Cancelled'`.
PatientCancellableNotCancelled == {"Booked", "Rescheduled", "Pending", "Completed"}

\* The statuses patient_cancel_appointment accepts.
PatientCancellable == {"Booked", "Rescheduled"}

\* The assignment as it would be were the old row deleted and a row of the new
\* status added.
replace_row(A, id, status) ==
    Append(SelectSeq([i \in 1..Len(A) |-> [A[i] EXCEPT !.status = IF i = id THEN "" ELSE @]],
                     LAMBDA row : row.status # ""),
           [A[id] EXCEPT !.status = status])

\* appointment.status = status
set_status(A, id, status) == [A EXCEPT ![id].status = status]

admin_cancel_appointment(A, id) ==
    IF ~Exists(A, id)
    THEN [appts |-> A, flash |-> "404"]
    ELSE IF A[id].status \in AdminCancellable
    THEN [appts |-> set_status(A, id, "Cancelled"), flash |-> "successfully cancelled"]
    ELSE [appts |-> A, flash |-> "cannot be cancelled"]

\* The handler as it would be without its security check.
patient_cancel_any_appointment(A, id, p) ==
    IF ~Exists(A, id)
    THEN [appts |-> A, flash |-> "404"]
    ELSE IF A[id].status \in {"Booked", "Rescheduled"}
    THEN [appts |-> [A EXCEPT ![id].status = "Cancelled"], flash |-> "successfully cancelled"]
    ELSE [appts |-> A, flash |-> "cannot be cancelled"]

\* For the logged-in patient p.
patient_cancel_appointment(A, id, p) ==
    IF ~Exists(A, id)
    THEN [appts |-> A, flash |-> "404"]
    ELSE IF A[id].patient_id # p
    THEN [appts |-> A, flash |-> "Access denied"]
    ELSE IF A[id].status \in PatientCancellable
    THEN [appts |-> set_status(A, id, "Cancelled"), flash |-> "successfully cancelled"]
    ELSE [appts |-> A, flash |-> "cannot be cancelled"]

\* ------------------------------------------------------ consultation

\* complete_appointment, for the logged-in doctor doc.  T is the treatment
\* table.  The POST branch sets the status and inserts the Treatment row in one
\* commit; treatment.appointment_id is unique, so a second row for the
\* appointment raises and the except branch rolls both changes back.
complete_appointment(A, T, id, doc, method) ==
    IF ~Exists(A, id)
    THEN [appts |-> A, treatments |-> T, flash |-> "404"]
    ELSE IF A[id].doctor_id # doc
    THEN [appts |-> A, treatments |-> T, flash |-> "403"]
    ELSE IF method = "POST"
    THEN IF id \in T
         THEN [appts |-> A, treatments |-> T, flash |-> "Failed to save treatment details"]
         ELSE [appts |-> set_status(A, id, "Completed"), treatments |-> T \cup {id},
               flash |-> "Consultation completed and treatment notes saved."]
    ELSE [appts |-> A, treatments |-> T, flash |-> "consultation_form.html"]

\* The statuses start_consultation accepts.
Consultable == {"Booked", "Rescheduled", "Pending"}

\* start_consultation, for the logged-in doctor doc.  M is the medical_record
\* table, whose appointment_id is unique.
start_consultation(A, M, id, doc, method) ==
    IF ~Exists(A, id)
    THEN [appts |-> A, medical_records |-> M, flash |-> "404"]
    ELSE IF A[id].doctor_id # doc
    THEN [appts |-> A, medical_records |-> M, flash |-> "Access denied"]
    ELSE IF A[id].status \notin Consultable
    THEN [appts |-> A, medical_records |-> M, flash |-> "Cannot start consultation"]
    ELSE IF method = "GET"
    THEN [appts |-> A, medical_records |-> M, flash |-> "start_consultation.html"]
    ELSE IF id \in M
    THEN [appts |-> A, medical_records |-> M, flash |-> "Failed to save consultation details"]
    ELSE [appts |-> set_status(A, id, "Completed"), medical_records |-> M \cup {id},
          flash |-> "completed and status updated"]

\* ---------------------------------------------- set_doctor_availability

\* A query that never finds the doctor's row of the date.
no_first_availability(V, doc, date) == 0

\* DoctorAvailability.query.filter_by(doctor_id, date).first(): the row of the
\* lowest id, 0 when there is none.
first_availability(V, doc, date) ==
    LET hits == { i \in 1..Len(V) : V[i].doctor_id = doc /\ V[i].date = date }
    IN  IF hits = {} THEN 0 ELSE CHOOSE i \in hits : \A j \in hits : i <= j

\* not all([date, start_time, end_time])
FieldsMissing(date, start, end) == date = NoDate \/ start = NoTime \/ end = NoTime

\* What follows the query, r being the row it found (0: none): the two
\* assignments on that row, or the insert of a new one, and the commit; an
\* IntegrityError of the commit rolls back.
write_availability(V, doc, date, start, end, r) ==
    LET row == DoctorAvailability(doc, date, start, end)
    IN  IF ViolatesDoctorDateTimeUc(V, row, r)
        THEN [avail |-> V, flash |-> "Error setting availability."]
        ELSE IF r # 0
        THEN [avail |-> [V EXCEPT ![r] = row], flash |-> "updated"]
        ELSE [avail |-> Append(V, row), flash |-> "set"]

\* The POST branch for the logged-in doctor doc: update the existing row or
\* insert a new one, then commit; an IntegrityError rolls back.
set_doctor_availability(V, doc, date, start, end) ==
    IF FieldsMissing(date, start, end)
    THEN [avail |-> V, flash |-> "All fields are required."]
    ELSE write_availability(V, doc, date, start, end, first_availability(V, doc, date))

\* ------------------------------------------------------------ the state

\* No book_appointment request is between its query and its commit.
Idle == [pc |-> "idle", doctor_id |-> NoDoctor, date |-> NoDate, time |-> NoTime,
         flash |-> ""]

\* The requests a doctor may have in flight at once (two browser tabs).
Requests == {"first", "second"}

\* No set_doctor_availability request is between its query and its commit.
IdleAvail == [pc |-> "idle", doctor_id |-> NoDoctor, date |-> NoDate,
              start_time |-> NoTime, end_time |-> NoTime, found |-> 0, flash |-> ""]

\* generate_slots is not being called.
NoCall == [pc |-> "none", start_time_str |-> NoTime, end_time_str |-> NoTime,
           interval_minutes |-> 0, slots |-> << >>]

\* The store db.create_all() leaves: every table empty.
Init ==
    /\ appts = << >>
    /\ avail = << >>
    /\ treatments = {}
    /\ medical_records = {}
    /\ today = 0
    /\ pend = [p \in Patients |-> Idle]
    /\ pend_avail = [w \in Requests |-> IdleAvail]
    /\ call = NoCall

\* ---------------------------------------------------------- the requests
\* One action per handler; the handler runs from its query to its commit
\* without another request in between.

BookAppointment ==
    \E p \in Patients, d \in Doctors \cup {NoDoctor},
       date \in Dates \cup {NoDate}, time \in Times \cup {NoTime} :
        LET r == book_appointment(appts, p, d, date, time)
        IN  /\ Len(r.appts) <= MaxAppts
            /\ appts' = r.appts
            /\ UNCHANGED <<avail, treatments, medical_records, today, pend, pend_avail, call>>

AdminCancelAppointment ==
    \E id \in 1..(Len(appts) + 1) :
        /\ appts' = admin_cancel_appointment(appts, id).appts
        /\ UNCHANGED <<avail, treatments, medical_records, today, pend, pend_avail, call>>

PatientCancelAppointment ==
    \E id \in 1..(Len(appts) + 1), p \in Patients :
        /\ appts' = patient_cancel_appointment(appts, id, p).appts
        /\ UNCHANGED <<avail, treatments, medical_records, today, pend, pend_avail, call>>

CompleteAppointment ==
    \E id \in 1..(Len(appts) + 1), doc \in Doctors, method \in Methods :
        LET r == complete_appointment(appts, treatments, id, doc, method)
        IN  /\ appts' = r.appts
            /\ treatments' = r.treatments
            /\ UNCHANGED <<avail, medical_records, today, pend, pend_avail, call>>

StartConsultation ==
    \E id \in 1..(Len(appts) + 1), doc \in Doctors, method \in Methods :
        LET r == start_consultation(appts, medical_records, id, doc, method)
        IN  /\ appts' = r.appts
            /\ medical_records' = r.medical_records
            /\ UNCHANGED <<avail, treatments, today, pend, pend_avail, call>>

SetDoctorAvailability ==
    \E doc \in Doctors, date \in Dates \cup {NoDate},
       start \in WindowStarts \cup {NoTime}, end \in WindowEnds \cup {NoTime} :
        LET r == set_doctor_availability(avail, doc, date, start, end)
        IN  /\ Len(r.avail) <= MaxAvail
            /\ avail' = r.avail
            /\ UNCHANGED <<appts, treatments, medical_records, today, pend, pend_avail, call>>

\* Midnight passes: datetime.now() moves to the next day.
Tick ==
    /\ today < LastDay
    /\ today' = today + 1
    /\ UNCHANGED <<appts, avail, treatments, medical_records, pend, pend_avail, call>>

Next ==
    \/ BookAppointment
    \/ AdminCancelAppointment
    \/ PatientCancelAppointment
    \/ CompleteAppointment
    \/ StartConsultation
    \/ SetDoctorAvailability
    \/ Tick

Spec == Init /\ [][Next]_vars

\* The requests that write the appointment, treatment and medical_record
\* tables, on their own: none of them reads the clock or an availability row.
NextAppointments ==
    \/ BookAppointment
    \/ AdminCancelAppointment
    \/ PatientCancelAppointment
    \/ CompleteAppointment
    \/ StartConsultation

SpecAppointments == Init /\ [][NextAppointments]_vars

\* ------------------------------------------- a store found on start-up
\* The tables outlive the process (sqlite:///hms.db), and status is a free
\* String(20) column: the handlers' status tests name Rescheduled and Pending,
\* which rows written by another hand can hold.  InitStored starts from a
\* store of one appointment row of any of the statuses the code names.

StoredRow(row, T, M) ==
    /\ appts = <<row>>
    /\ avail = << >>
    /\ treatments = T
    /\ medical_records = M
    /\ today = 0
    /\ pend = [p \in Patients |-> Idle]
    /\ pend_avail = [w \in Requests |-> IdleAvail]
    /\ call = NoCall

InitStored ==
    \E p \in Patients, d \in Doctors, date \in Dates, time \in Times,
       status \in Statuses :
        StoredRow(Appointment(p, d, date, time, status), {},
                  IF status = "Completed" THEN {1} ELSE {})

SpecStored == InitStored /\ [][Next]_vars

\* The appointment-writing requests on a store found on start-up.
SpecStoredAppointments == InitStored /\ [][NextAppointments]_vars

\* ------------------------------------------- interleaved booking requests
\* Each request is served by its own worker: between the conflict query of one
\* book_appointment and its commit, another request may run.  BookQuery is the
\* handler up to the conflict test, BookCommit the insert and commit.

Pending(d, date, time) ==
    [pc |-> "queried", doctor_id |-> d, date |-> date, time |-> time, flash |-> ""]

Done(d, date, time, flash) ==
    [pc |-> "done", doctor_id |-> d, date |-> date, time |-> time, flash |-> flash]

BookQuery ==
    \E p \in Patients, d \in Doctors \cup {NoDoctor},
       date \in Dates \cup {NoDate}, time \in Times \cup {NoTime} :
        /\ pend[p].pc = "idle"
        /\ pend' = [pend EXCEPT ![p] =
                IF MissingDetails(d, date, time)
                THEN Done(d, date, time, "Missing appointment details.")
                ELSE IF conflict(appts, d, date, time)
                THEN Done(d, date, time, "This exact time slot is already booked")
                ELSE Pending(d, date, time)]
        /\ UNCHANGED <<appts, avail, treatments, medical_records, today, pend_avail, call>>

BookCommit ==
    \E p \in Patients :
        /\ pend[p].pc = "queried"
        /\ LET r == insert_appointment(appts, p, pend[p].doctor_id, pend[p].date,
                                       pend[p].time)
           IN  /\ Len(r.appts) <= MaxAppts
               /\ appts' = r.appts
               /\ pend' = [pend EXCEPT ![p] =
                       Done(pend[p].doctor_id, pend[p].date, pend[p].time, r.flash)]
        /\ UNCHANGED <<avail, treatments, medical_records, today, pend_avail, call>>

\* The stores the race starts from: the empty one, or one appointment the
\* handlers above have booked, cancelled or completed.
InitRace ==
    \/ Init
    \/ \E p \in Patients, d \in Doctors, date \in Dates, time \in Times,
          status \in {"Booked", "Cancelled", "Completed"} :
           StoredRow(Appointment(p, d, date, time, status), {},
                     IF status = "Completed" THEN {1} ELSE {})

NextRace == BookQuery \/ BookCommit

SpecRace == InitRace /\ [][NextRace]_vars

\* ------------------------------------ interleaved availability requests
\* Between the existence query of one set_doctor_availability request and its
\* commit, another request may run.  AvailQuery is the handler up to the
\* query's result, AvailCommit the update or insert and the commit.

AvailQueried(doc, date, start, end, r) ==
    [pc |-> "queried", doctor_id |-> doc, date |-> date, start_time |-> start,
     end_time |-> end, found |-> r, flash |-> ""]

AvailDone(doc, date, start, end, r, flash) ==
    [pc |-> "done", doctor_id |-> doc, date |-> date, start_time |-> start,
     end_time |-> end, found |-> r, flash |-> flash]

AvailQuery ==
    \E w \in Requests, doc \in Doctors, date \in Dates \cup {NoDate},
       start \in WindowStarts \cup {NoTime}, end \in WindowEnds \cup {NoTime} :
        /\ pend_avail[w].pc = "idle"
        /\ pend_avail' = [pend_avail EXCEPT ![w] =
                IF FieldsMissing(date, start, end)
                THEN AvailDone(doc, date, start, end, 0, "All fields are required.")
                ELSE AvailQueried(doc, date, start, end,
                                  first_availability(avail, doc, date))]
        /\ UNCHANGED <<appts, avail, treatments, medical_records, today, pend, call>>

AvailCommit ==
    \E w \in Requests :
        /\ pend_avail[w].pc = "queried"
        /\ LET q == pend_avail[w]
               r == write_availability(avail, q.doctor_id, q.date, q.start_time,
                                       q.end_time, q.found)
           IN  /\ Len(r.avail) <= MaxAvail
               /\ avail' = r.avail
               /\ pend_avail' = [pend_avail EXCEPT ![w] =
                       AvailDone(q.doctor_id, q.date, q.start_time, q.end_time,
                                 q.found, r.flash)]
        /\ UNCHANGED <<appts, treatments, medical_records, today, pend, call>>

\* The stores the race starts from: the empty one, or one window a request
\* has set.
InitAvailRace ==
    \/ Init
    \/ /\ appts = << >>
       /\ \E doc \in Doctors, date \in Dates, start \in WindowStarts, end \in WindowEnds :
             avail = <<DoctorAvailability(doc, date, start, end)>>
       /\ treatments = {}
       /\ medical_records = {}
       /\ today = 0
       /\ pend = [p \in Patients |-> Idle]
       /\ pend_avail = [w \in Requests |-> IdleAvail]
       /\ call = NoCall

NextAvailRace == AvailQuery \/ AvailCommit

SpecAvailRace == InitAvailRace /\ [][NextAvailRace]_vars

\* ------------------------------------------------ calls of generate_slots
\* generate_slots reads no table: a call is its three arguments, and its
\* return value once it has returned.

SlotHours   == {21, 22, 23}
SlotMinutes == {0, 15, 30, 45}

\* The '%H:%M' strings the calls pass as start_time_str and end_time_str.
ClockTimes == { strftime(h * 60 + m) : h \in SlotHours, m \in SlotMinutes }

\* The interval_minutes values of the calls (the default among them).
Intervals == {7, 15, DefaultInterval, 45}

InitSlots ==
    /\ appts = << >>
    /\ avail = << >>
    /\ treatments = {}
    /\ medical_records = {}
    /\ today = 0
    /\ pend = [p \in Patients |-> Idle]
    /\ pend_avail = [w \in Requests |-> IdleAvail]
    /\ \E start \in ClockTimes, end \in ClockTimes, interval \in Intervals :
          call = [pc |-> "called", start_time_str |-> start, end_time_str |-> end,
                  interval_minutes |-> interval, slots |-> << >>]

GenerateSlots ==
    /\ call.pc = "called"
    /\ call' = [call EXCEPT
                   !.pc = "returned",
                   !.slots = generate_slots(call.start_time_str, call.end_time_str,
                                            call.interval_minutes)]
    /\ UNCHANGED <<appts, avail, treatments, medical_records, today, pend, pend_avail>>

NextSlots == GenerateSlots

SpecSlots == InitSlots /\ [][NextSlots]_vars

\* ================================================================ claims

Range(seq) == { seq[i] : i \in 1..Len(seq) }

SameSlot(a, b) ==
    a.doctor_id = b.doctor_id /\ a.date = b.date /\ a.time = b.time

\* The rows of A for (d, date, time) whose status is in S.
RowsAt(A, d, date, time, S) ==
    { i \in 1..Len(A) : /\ A[i].doctor_id = d
                        /\ A[i].date = date
                        /\ A[i].time = time
                        /\ A[i].status \in S }

\* The strict occupying set of the design.
StrictOccupying == {"Booked", "Completed"}

\* ---------------------------------------------------------------- C1
\* C1: no double booking.  In every state reached by booking, cancelling and
\* completing requests, no two appointment rows of one (doctor, date, time)
\* both have a status in {Booked, Completed}.
C1_NoDoubleBooking ==
    \A i, j \in 1..Len(appts) :
        (i # j /\ SameSlot(appts[i], appts[j]))
            => ~(appts[i].status \in StrictOccupying /\ appts[j].status \in StrictOccupying)

\* A slot that was booked, then completed or cancelled, with a second
\* appointment of the same doctor and date in the store.
C1_Witness ==
    \E i, j \in 1..Len(appts) :
        /\ i # j
        /\ appts[i].doctor_id = appts[j].doctor_id
        /\ appts[i].date = appts[j].date
        /\ appts[i].status \in {"Completed", "Cancelled"}
        /\ appts[j].status = "Booked"

\* ---------------------------------------------------------------- C2
\* The requests of the race that have ended, and the rows they created.
RaceDone(p) == pend[p].pc = "done"

RaceBooked(p) == RaceDone(p) /\ pend[p].flash = "Appointment booked successfully!"

\* The conflict error: the conflict query found the slot taken, or the
\* unique constraint fired at commit.
RaceConflict(p) ==
    /\ RaceDone(p)
    /\ pend[p].flash \in {"This exact time slot is already booked",
                          "Error booking appointment"}

SameRequest(p, q) ==
    /\ pend[p].doctor_id = pend[q].doctor_id
    /\ pend[p].date = pend[q].date
    /\ pend[p].time = pend[q].time

\* Row i was in the store before the race: no request of the race created it.
StoredBefore(i) ==
    ~ \E p \in Patients :
        /\ RaceBooked(p)
        /\ appts[i] = Appointment(p, pend[p].doctor_id, pend[p].date, pend[p].time,
                                  "Booked")

\* C2: two book_appointment requests for the same never-before-booked
\* (doctor, date, time), interleaved in any order: once both have ended,
\* exactly one has created an appointment and the other has ended in the
\* conflict error; the store holds exactly one row for the triple, Booked and
\* owned by the winner, and every other row is one the store held before.
C2_RaceOneWinner ==
    \A p, q \in Patients :
        ( /\ p # q
          /\ RaceDone(p) /\ RaceDone(q)
          /\ ~MissingDetails(pend[p].doctor_id, pend[p].date, pend[p].time)
          /\ SameRequest(p, q)
          /\ ~ \E i \in 1..Len(appts) :
                 /\ StoredBefore(i)
                 /\ SameSlot(appts[i], pend[p]) )
        => /\ (RaceBooked(p) /\ RaceConflict(q)) \/ (RaceBooked(q) /\ RaceConflict(p))
           /\ Cardinality(RowsAt(appts, pend[p].doctor_id, pend[p].date,
                                 pend[p].time, Statuses)) = 1
           /\ Cardinality(RowsAt(appts, pend[p].doctor_id, pend[p].date,
                                 pend[p].time, {"Booked"})) = 1
           /\ Cardinality({ i \in 1..Len(appts) : ~StoredBefore(i) }) = 1

\* Both requests passed the conflict query before either committed: one has
\* booked, the other was stopped by the unique constraint at its commit.
C2_Witness ==
    \E p, q \in Patients :
        /\ p # q
        /\ SameRequest(p, q)
        /\ RaceBooked(p)
        /\ RaceDone(q)
        /\ pend[q].flash = "Error booking appointment"
        /\ Len(appts) = 2

\* ---------------------------------------------------------------- C3
\* The step added an appointment row (only book_appointment does).
Created == Len(appts') = Len(appts) + 1

NewRow == appts'[Len(appts')]

\* time is in the list find_doctors computes for (d, date) from store (A, V) on
\* day now; a date outside date_list has no list.
Listed(A, V, now, d, date, time) ==
    /\ date \in date_list(now)
    /\ time \in Range(bookable_slots(A, V, now, d, date))

\* C3: a book_appointment request for a (doctor, date, time) that is not in the
\* bookable-slot list of that doctor and date never creates an appointment:
\* every row a step creates is for a slot the listing offered before the step.
C3_UnlistedNeverBooked ==
    [][ Created => Listed(appts, avail, today, NewRow.doctor_id, NewRow.date,
                          NewRow.time) ]_vars

\* ---------------------------------------------------------------- C4
\* C4: whenever an appointment with status Booked or Completed exists for the
\* requested (doctor, date, time), book_appointment ends at its conflict check,
\* with the 'already booked' message, and the store is as it was.
C4_StrictRecheck ==
    \A p \in Patients, d \in Doctors, date \in Dates, time \in Times :
        RowsAt(appts, d, date, time, StrictOccupying) # {}
            => LET r == book_appointment(appts, p, d, date, time)
               IN  /\ r.flash = "This exact time slot is already booked"
                   /\ r.appts = appts

\* ---------------------------------------------------------------- C5
\* The slots generated from the window find_doctors uses for (d, date).
Generated(V, now, d, date) ==
    LET r == availability_record(V, now, d, date)
    IN  IF r = 0 THEN << >>
        ELSE generate_slots(V[r].start_time, V[r].end_time, DefaultInterval)

Without(seq, x) == SelectSeq(seq, LAMBDA s : s # x)

\* The booking of this step was of a generated slot of a date of the horizon.
BookedInWindow ==
    /\ Created
    /\ NewRow.date \in date_list(today)
    /\ NewRow.time \in Range(Generated(avail, today, NewRow.doctor_id, NewRow.date))

\* While an appointment is Booked, every further request for its slot is
\* rejected by the conflict check and creates no row.
RebookRejected ==
    \A i \in 1..Len(appts), q \in Patients :
        appts[i].status = "Booked"
            => LET r == book_appointment(appts, q, appts[i].doctor_id, appts[i].date,
                                         appts[i].time)
               IN  /\ r.flash = "This exact time slot is already booked"
                   /\ r.appts = appts

C6_BookCancelRestoresListing ==
    \A p \in Patients, d \in Doctors, date \in Dates, time \in Times :
        LET before == bookable_slots_map(appts, avail, today)
            booked == book_appointment(appts, p, d, date, time).appts
            id     == Len(booked)
            byPatient == patient_cancel_appointment(booked, id, p).appts
            byAdmin   == admin_cancel_appointment(booked, id).appts
        IN  Len(booked) = Len(appts) + 1
            => /\ (Listed(appts, avail, today, d, date, time)
                      => ~Listed(booked, avail, today, d, date, time))
               /\ byPatient[id].status = "Cancelled"
               /\ byAdmin[id].status = "Cancelled"
               /\ bookable_slots_map(byPatient, avail, today) = before
               /\ bookable_slots_map(byAdmin, avail, today) = before

\* A slot of a window of the horizon was booked and cancelled, and the listing
\* offers it again.
C6_Witness ==
    \E i \in 1..Len(appts) :
        /\ appts[i].status = "Cancelled"
        /\ Listed(appts, avail, today, appts[i].doctor_id, appts[i].date, appts[i].time)

\* ---------------------------------------------------------------- C7
\* The cancellable set of the design.
Cancellable == {"Booked", "Rescheduled", "Pending"}

C8_TerminalCancelRejected ==
    \A id \in 1..Len(appts) :
        appts[id].status \in {"Completed", "Cancelled"}
            => /\ \A p \in Patients :
                    LET r == patient_cancel_appointment(appts, id, p)
                    IN  /\ r.appts = appts
                        /\ r.flash \in {"cannot be cancelled", "Access denied"}
               /\ LET r == admin_cancel_appointment(appts, id)
                  IN  /\ r.appts = appts
                      /\ r.flash = "cannot be cancelled"

\* The store holds a Completed and a Cancelled appointment.
C8_Witness ==
    \E i, j \in 1..Len(appts) :
        appts[i].status = "Completed" /\ appts[j].status = "Cancelled"

\* ---------------------------------------------------------------- C9
\* C9: Completed and Cancelled are terminal: no step changes the status of an
\* appointment that is Completed or Cancelled.
C9_TerminalStatuses ==
    [][ \A id \in 1..Len(appts) :
            appts[id].status \in {"Completed", "Cancelled"}
                => appts'[id].status = appts[id].status ]_vars

\* ---------------------------------------------------------------- C10
\* The consultation records of appointment id: its Treatment rows and its
\* MedicalRecord rows.
ConsultationRecords(id) ==
    (IF id \in treatments THEN 1 ELSE 0) + (IF id \in medical_records THEN 1 ELSE 0)

\* C10: an appointment has exactly one consultation record if its status is
\* Completed and none otherwise.
C10_OneRecordPerCompleted ==
    \A id \in 1..Len(appts) :
        ConsultationRecords(id) = IF appts[id].status = "Completed" THEN 1 ELSE 0

\* ---------------------------------------------------------------- C11
\* The availability rows of doctor d on date.
WindowsOf(V, d, date) ==
    { i \in 1..Len(V) : V[i].doctor_id = d /\ V[i].date = date }

\* C11: availability overwrite.  After any sequence of set_doctor_availability
\* requests run one after the other there is at most one window per (doctor,
\* date); and a request for a date on which the doctor has a row replaces that
\* row's start_time and end_time by the submitted values, creates no row and
\* leaves every other row as it was.
C11_AvailabilityOverwrite ==
    /\ \A d \in Doctors, date \in Dates : Cardinality(WindowsOf(avail, d, date)) <= 1
    /\ \A d \in Doctors, date \in Dates, start \in WindowStarts, end \in WindowEnds :
          WindowsOf(avail, d, date) # {}
              => LET r == set_doctor_availability(avail, d, date, start, end)
                     i == CHOOSE k \in WindowsOf(avail, d, date) : TRUE
                 IN  /\ Len(r.avail) = Len(avail)
                     /\ r.avail[i] = DoctorAvailability(d, date, start, end)
                     /\ \A k \in 1..Len(avail) : k # i => r.avail[k] = avail[k]
                     /\ r.flash = "updated"

\* Both doctors have a window on one date, and a request of one of them with
\* another start_time updates that doctor's row.
C11_Witness ==
    \E i, j \in 1..Len(avail), start \in WindowStarts, end \in WindowEnds :
        /\ i # j
        /\ avail[i].date = avail[j].date
        /\ start # avail[i].start_time
        /\ set_doctor_availability(avail, avail[i].doctor_id, avail[i].date, start, end)
               = [avail |-> [avail EXCEPT ![i].start_time = start, ![i].end_time = end],
                  flash |-> "updated"]

\* ---------------------------------------------------------------- C12
\* C12: for all times start and end of one day and every interval > 0,
\* generate_slots(start, end, interval) returns exactly the times
\* start + k * interval, k = 0, 1, 2, ..., that are strictly before end, in
\* that order: strictly ascending, the first one start, consecutive ones
\* exactly interval minutes apart, the last one before end, none left out; and
\* the empty sequence when start >= end.
C12_SlotsAreTheGrid ==
    call.pc = "returned"
        => LET s   == strptime(call.start_time_str)
               e   == strptime(call.end_time_str)
               iv  == call.interval_minutes
               out == call.slots
               n   == Len(out)
           IN  /\ s >= e => out = << >>
               /\ s < e  => n >= 1 /\ out[1] = call.start_time_str
               /\ \A k \in 1..n : /\ out[k] = strftime(s + (k - 1) * iv)
                                  /\ strptime(out[k]) = s + (k - 1) * iv
                                  /\ strptime(out[k]) < e
               /\ \A k \in 1..(n - 1) : /\ strptime(out[k]) < strptime(out[k + 1])
                                        /\ strptime(out[k + 1]) - strptime(out[k]) = iv
               /\ s + n * iv >= e

\* A call has returned several slots of which the last one runs past end.
C12_Witness ==
    /\ call.pc = "returned"
    /\ Len(call.slots) >= 2
    /\ strptime(call.slots[Len(call.slots)]) + call.interval_minutes
           > strptime(call.end_time_str)

\* ---------------------------------------------------------------- C13
\* The cell the design prescribes for (d, date): nothing without a window,
\* else the 30-minute slots of the window without those an appointment of the
\* doctor, date and time with status Booked or Completed takes.
PrescribedCell(A, V, d, date) ==
    IF WindowsOf(V, d, date) = {}
    THEN << >>
    ELSE LET w == CHOOSE i \in WindowsOf(V, d, date) : TRUE
         IN  SelectSeq(generate_slots(V[w].start_time, V[w].end_time, 30),
                       LAMBDA slot : RowsAt(A, d, date, slot, StrictOccupying) = {})

\* C13: in every store state, for every doctor and each of the 7 dates
\* today .. today + 6, the cell of the find_doctors listing is empty if the
\* doctor has no window on the date, and otherwise the generated 30-minute
\* slots of the window, in generated order, without exactly those for which
\* a Booked or Completed appointment of that doctor, date and time exists.
C13_ListingCell ==
    \A d \in Doctors, date \in today..(today + 6) :
        bookable_slots_map(appts, avail, today)[d][date]
            = PrescribedCell(appts, avail, d, date)

\* A two-slot window of the horizon: one slot is taken by a Booked or
\* Completed appointment, the other has an appointment of another status and
\* is the one slot listed.
C13_Witness ==
    \E i, j \in 1..Len(appts) :
        LET d == appts[i].doctor_id
            date == appts[i].date
        IN  /\ appts[j].doctor_id = d /\ appts[j].date = date
            /\ appts[i].status \in StrictOccupying
            /\ appts[j].status \notin StrictOccupying
            /\ date \in date_list(today)
            /\ Len(Generated(avail, today, d, date)) = 2
            /\ bookable_slots_map(appts, avail, today)[d][date] = <<appts[j].time>>

\* ---------------------------------------------------------------- C14
\* C14: a book_appointment request in which doctor_id, date or time is missing
\* or empty is rejected with the validation error, and no appointment row is
\* created or modified.
C14_MissingDetailsRejected ==
    \A p \in Patients, d \in Doctors \cup {NoDoctor},
       date \in Dates \cup {NoDate}, time \in Times \cup {NoTime} :
        (d = NoDoctor \/ date = NoDate \/ time = NoTime)
            => LET r == book_appointment(appts, p, d, date, time)
               IN  /\ r.flash = "Missing appointment details."
                   /\ r.appts = appts

\* The store holds a cancelled appointment, and a request for its doctor and
\* date that names no time is rejected.
C14_Witness ==
    \E i \in 1..Len(appts) :
        /\ appts[i].status = "Cancelled"
        /\ book_appointment(appts, appts[i].patient_id, appts[i].doctor_id,
                            appts[i].date, NoTime)
               = [appts |-> appts, flash |-> "Missing appointment details."]

\* ---------------------------------------------------------------- C15
\* C15: ownership.  For an appointment of any status, a
\* patient_cancel_appointment request by a patient who is not its patient, and
\* a start_consultation or complete_appointment request (GET or POST) by a
\* doctor who is not its doctor, is rejected, and the appointment table and
\* the consultation records are as they were.
C15_OwnershipEnforced ==
    \A id \in 1..Len(appts) :
        /\ \A p \in Patients :
              p # appts[id].patient_id
                  => patient_cancel_appointment(appts, id, p)
                         = [appts |-> appts, flash |-> "Access denied"]
        /\ \A doc \in Doctors, method \in Methods :
              doc # appts[id].doctor_id
                  => /\ start_consultation(appts, medical_records, id, doc, method)
                            = [appts |-> appts, medical_records |-> medical_records,
                               flash |-> "Access denied"]
                     /\ complete_appointment(appts, treatments, id, doc, method)
                            = [appts |-> appts, treatments |-> treatments,
                               flash |-> "403"]

\* The store holds a Rescheduled appointment and a Completed one with its
\* consultation record; another patient's cancel request on the first and
\* another doctor's completion request on the second are rejected.
C15_Witness ==
    \E i, j \in 1..Len(appts), p \in Patients, doc \in Doctors :
        /\ appts[i].status = "Rescheduled"
        /\ appts[j].status = "Completed"
        /\ ConsultationRecords(j) = 1
        /\ p # appts[i].patient_id
        /\ doc # appts[j].doctor_id
        /\ patient_cancel_appointment(appts, i, p).flash = "Access denied"
        /\ complete_appointment(appts, treatments, j, doc, "POST").flash = "403"

\* ---------------------------------------------------------------- C16
\* The step is a successful book_appointment request and nothing else.
IsBooking ==
    \E p \in Patients, d \in Doctors, date \in Dates, time \in Times :
        /\ appts' = Append(appts, Appointment(p, d, date, time, "Booked"))
        /\ appts' = book_appointment(appts, p, d, date, time).appts
        /\ UNCHANGED <<avail, treatments, medical_records>>

\* C16: appointments are never deleted or re-targeted.  In every step the
\* appointment ids of the store stay (the set only grows), every existing
\* appointment keeps its patient_id, doctor_id, date and time, so that status
\* is the only field a step changes, and a step that adds a row is a
\* book_appointment request adding one Booked row.
C16_NeverDeletedOrRetargeted ==
    [][ /\ Len(appts') >= Len(appts)
        /\ \A id \in 1..Len(appts) :
              appts'[id] = [appts[id] EXCEPT !.status = appts'[id].status]
        /\ Len(appts') > Len(appts) => IsBooking ]_vars

\* The first appointment was booked and cancelled, the second booked and
\* completed with its consultation record, while the doctor has a window.
C16_Witness ==
    /\ Len(appts) = 2
    /\ Len(avail) >= 1
    /\ appts[1].status = "Cancelled"
    /\ appts[2].status = "Completed"
    /\ ConsultationRecords(2) = 1

\* ---------------------------------------------------------------- C17
\* C17: a cancelled slot can be rebooked.  When an appointment of a (doctor,
\* date, time) is Cancelled and no Booked or Completed appointment exists for
\* the triple, a book_appointment request for the triple succeeds and creates
\* a new appointment with status Booked.
C17_CancelledSlotRebookable ==
    \A i \in 1..Len(appts), p \in Patients :
        ( /\ appts[i].status = "Cancelled"
          /\ RowsAt(appts, appts[i].doctor_id, appts[i].date, appts[i].time,
                    StrictOccupying) = {} )
        => LET r == book_appointment(appts, p, appts[i].doctor_id, appts[i].date,
                                     appts[i].time)
           IN  /\ r.flash = "Appointment booked successfully!"
               /\ r.appts = Append(appts, Appointment(p, appts[i].doctor_id,
                                                      appts[i].date, appts[i].time,
                                                      "Booked"))

\* ---------------------------------------------------------------- C18
\* C18: one window per (doctor, date) under interleaving.  When two
\* set_doctor_availability requests of one doctor for one date, with
\* different start_time values, have both run their existence query before
\* either committed, then once both have ended the store holds at most one
\* DoctorAvailability row for that doctor and date.
C18_OneWindowUnderInterleaving ==
    \A v, w \in Requests :
        ( /\ v # w
          /\ pend_avail[v].pc = "done" /\ pend_avail[w].pc = "done"
          /\ ~FieldsMissing(pend_avail[v].date, pend_avail[v].start_time,
                            pend_avail[v].end_time)
          /\ ~FieldsMissing(pend_avail[w].date, pend_avail[w].start_time,
                            pend_avail[w].end_time)
          /\ pend_avail[v].doctor_id = pend_avail[w].doctor_id
          /\ pend_avail[v].date = pend_avail[w].date
          /\ pend_avail[v].start_time # pend_avail[w].start_time )
        => Cardinality(WindowsOf(avail, pend_avail[v].doctor_id, pend_avail[v].date)) <= 1

\* ---------------------------------------------------------------- C19
\* Every appointment of the store is Booked, Completed or Cancelled.
OnlyThreeStatuses(A) ==
    \A id \in 1..Len(A) : A[id].status \in {"Booked", "Completed", "Cancelled"}

\* C19: from a store whose appointments are all Booked, Completed or
\* Cancelled, every step leads to such a store: a row a step creates is Booked,
\* and no step sets the status of a row to Pending or Rescheduled.
C19_ThreeStatusesClosed ==
    [][ OnlyThreeStatuses(appts)
          => /\ OnlyThreeStatuses(appts')
             /\ Created => NewRow.status = "Booked"
             /\ \A id \in 1..Len(appts) :
                   appts'[id].status \notin {"Pending", "Rescheduled"} ]_vars

\* The store holds a Completed appointment with its medical record, and a
\* second appointment booked after it.
C19_Witness ==
    /\ Len(appts) = 2
    /\ appts[1].status = "Completed"
    /\ 1 \in medical_records
    /\ appts[2].status = "Booked"

====
